---- MODULE Spec2Model ----
(***************************************************************************)
(* cloneAllGitea (src/main.go): list the repositories a token can see on  *)
(* a Gitea server, page by page, optionally keeping one owner's, then      *)
(* clone every repository that is not on disk yet, one goroutine per       *)
(* repository, each under its own 5 minute context, and report the         *)
(* failures received on a buffered result channel.                         *)
(*                                                                         *)
(* Strings the program takes apart (full names, user names) are sequences  *)
(* of one-character strings, so that strings.Split is computed.            *)
(* Time is counted in minutes.                                             *)
(***************************************************************************)
EXTENDS Integers, Sequences, FiniteSets, TLC

\* ------------------------------------------------------------- bounds
\* Most repository entries the server hands out over all pages of one run;
\* it is also the largest number of dispatcher tasks.
MaxEntries == 2

\* Most characters in config.env.
MaxFileLen == 4

\* ---------------------------------------------------- program constants
\* const timeout = 5 * time.Minute
Timeout == 5
\* the only status fetchRepositories and fetchUsername accept
StatusOK == 200
\* a status the server may answer instead
StatusError == 500

\* --------------------------------------------------------------- data
Empty == << >>
NameA == <<"a">>
NameAB == <<"a", "b">>
\* full_name values the server may return: "a/x" and "ab/y"
FullNames == { <<"a", "/", "x">>, <<"a", "b", "/", "y">> }
\* values of --user ("" is the flag's default) and of the login field
Usernames == { Empty, NameA, NameAB }

\* clone_url of the repository called fn: the host, then the full name
CloneURLOf(fn) == <<"h", "/">> \o fn

\* type Repository struct (Name is only printed, and left out)
Repository == { [FullName |-> fn, CloneURL |-> CloneURLOf(fn)] : fn \in FullNames }

\* error values: nil, a non-zero exit, a failure to start git, the kill of
\* git at the context's deadline, and the context's error returned when git
\* is not even started
Nil == "nil"
ErrExit == "exit status"
ErrSpawn == "spawn"
ErrKilled == "killed"
ErrDeadline == "deadline exceeded"

\* what os.Stat(path) can find
Absent == "absent"
Present == "present"
StatFails == "stat fails"

Tasks == 1..MaxEntries

RECURSIVE SeqsUpTo(_, _)
\* all sequences over S of length at most n
SeqsUpTo(S, n) ==
    IF n = 0 THEN { Empty }
    ELSE LET shorter == SeqsUpTo(S, n - 1)
         IN shorter \cup { Append(s, x) : s \in { q \in shorter : Len(q) = n - 1 }, x \in S }

Min(a, b) == IF a < b THEN a ELSE b

VARIABLES
    configFile,    \* the characters of config.env
    config,        \* main's config: the map loadConfig returned
    configErr,     \* loadConfig returned an error
    onlyMe,        \* flag --onlyme
    user,          \* flag --user
    fs,            \* the target directory: what stat finds at each full name
    fs0,           \* fs as it was when the run began
    pcMain,        \* where main is
    username,      \* main's username
    identityCalls, \* requests of /api/v1/user made
    lookedUp,      \* the responses to those requests, in order
    page,          \* fetchRepositories: page
    allRepos,      \* fetchRepositories: allRepos
    served,        \* the responses to the listing requests, in order
    requested,     \* the page numbers requested, in order
    listErr,       \* fetchRepositories returned an error
    repos,         \* main's repos
    next,          \* main's position in `for _, repo := range repos`
    wg,            \* the WaitGroup's counter
    resultsCh,     \* the results buffered in the channel
    closed,        \* the channel is closed
    closes,        \* close(resultsCh) calls made
    pcCloser,      \* where the goroutine of lines 101-104 is
    pc,            \* where each task's goroutine is
    statSaw,       \* what each task's os.Stat found
    err,           \* each task's err
    ctxLeft,       \* minutes left on each context (0: done or not created)
    age,           \* minutes since the task created its context, until gitClone returned
    cloneCalls,    \* how many times each task called gitClone
    sent,          \* the results each task sent
    received,      \* how many results main's range loop received
    errLog         \* "Error cloning repository" lines printed

vars == << configFile, config, configErr, onlyMe, user, fs, fs0, pcMain, username, identityCalls, lookedUp, page, allRepos,
           served, requested, listErr, repos, next, wg, resultsCh, closed, closes,
           pcCloser, pc, statSaw, err, ctxLeft, age, cloneCalls, sent, received, errLog >>

flagVars == << configFile, config, configErr, onlyMe, user, fs0 >>
listVars == << username, identityCalls, lookedUp, page, allRepos, served, requested, listErr, repos >>
chanVars == << resultsCh, closed, closes >>
taskVars == << pc, statSaw, err, ctxLeft, age, cloneCalls, sent >>

\* ------------------------------------------------------------- config
\* the characters config.env is made of: a letter, the separator, the
\* comment mark, a space and the end of a line
ConfigChars == { "k", "=", "#", " ", "\n" }

\* every config.env of at most MaxFileLen characters
ConfigFiles == SeqsUpTo(ConfigChars, MaxFileLen)

\* the files of a run of the whole program: "k=k", and "k", which has a
\* line without a separator
ConfigSamples == { <<"k", "=", "k">>, <<"k">> }

\* strings.Index(s, c), from 1; 0 when c is not in s
IndexOf(s, c) ==
    IF \E i \in 1..Len(s) : s[i] = c
    THEN CHOOSE i \in 1..Len(s) : s[i] = c /\ \A j \in 1..(i - 1) : s[j] # c
    ELSE 0

RECURSIVE SplitAll(_, _)
\* strings.Split(s, c): the pieces of s between the occurrences of c
SplitAll(s, c) ==
    IF IndexOf(s, c) = 0 THEN << s >>
    ELSE << SubSeq(s, 1, IndexOf(s, c) - 1) >> \o SplitAll(SubSeq(s, IndexOf(s, c) + 1, Len(s)), c)

\* strings.SplitN(s, c, 2): s cut at the first c only
SplitN2(s, c) ==
    IF IndexOf(s, c) = 0 THEN << s >>
    ELSE << SubSeq(s, 1, IndexOf(s, c) - 1), SubSeq(s, IndexOf(s, c) + 1, Len(s)) >>

RECURSIVE TrimSpace(_)
\* strings.TrimSpace(s)
TrimSpace(s) ==
    IF s = Empty THEN s
    ELSE IF s[1] \in {" ", "\n"} THEN TrimSpace(Tail(s))
    ELSE IF s[Len(s)] \in {" ", "\n"} THEN TrimSpace(SubSeq(s, 1, Len(s) - 1))
    ELSE s

\* strings.TrimSpace(line) == "" || strings.HasPrefix(line, "#")
SkipsLine(line) == TrimSpace(line) = Empty \/ (line # Empty /\ line[1] = "#")

\* strings.Split in place of SplitN: every separator cuts
LinePartsAll(line) == SplitAll(line, "=")

\* parts := strings.SplitN(line, "=", 2)
LineParts(line) == SplitN2(line, "=")

\* make(map[string]string)
EmptyMap == [k \in {} |-> Empty]

RECURSIVE LoadLines(_, _, _)
\* loadConfig's loop over the lines, from line i on with cfg filled so far
LoadLines(lines, i, cfg) ==
    IF i > Len(lines) THEN [config |-> cfg, failed |-> FALSE]
    ELSE IF SkipsLine(lines[i]) THEN LoadLines(lines, i + 1, cfg)
    ELSE IF Len(LineParts(lines[i])) # 2 THEN [config |-> EmptyMap, failed |-> TRUE]
    ELSE LoadLines(lines, i + 1,
                   (TrimSpace(LineParts(lines[i])[1]) :> TrimSpace(LineParts(lines[i])[2])) @@ cfg)

\* loadConfig(path), of the characters of the file at path (which os.ReadFile
\* could read)
LoadConfig(file) == LoadLines(SplitAll(file, "\n"), 1, EmptyMap)

\* ------------------------------------------------------------- server
\* A response to GET /api/v1/user/repos?page=n: whether client.Do got one
\* at all, its status, whether its body is a JSON array of repository
\* objects, and the array's entries. `room` is how many entries the server
\* may still hand out.
PageResponses(room) ==
    { [delivered |-> FALSE, status |-> StatusError, json |-> FALSE, entries |-> Empty],
      [delivered |-> TRUE, status |-> StatusError, json |-> FALSE, entries |-> Empty],
      [delivered |-> TRUE, status |-> StatusOK, json |-> FALSE, entries |-> Empty] }
    \cup { [delivered |-> TRUE, status |-> StatusOK, json |-> TRUE, entries |-> e] :
             e \in SeqsUpTo(Repository, room) }

\* A response to GET /api/v1/user: as above, with the object's login field.
IdentityResponses ==
    { [delivered |-> FALSE, status |-> StatusError, json |-> FALSE, login |-> Empty],
      [delivered |-> TRUE, status |-> StatusError, json |-> FALSE, login |-> Empty],
      [delivered |-> TRUE, status |-> StatusOK, json |-> FALSE, login |-> Empty] }
    \cup { [delivered |-> TRUE, status |-> StatusOK, json |-> TRUE, login |-> l] :
             l \in Usernames }

\* ------------------------------------------------------------- lister
\* the index of the first "/" of s, or Len(s) + 1
FirstSlash(s) ==
    IF \E i \in 1..Len(s) : s[i] = "/"
    THEN CHOOSE i \in 1..Len(s) : s[i] = "/" /\ \A j \in 1..(i - 1) : s[j] # "/"
    ELSE Len(s) + 1

\* strings.Split(fullName, "/")[0]
OwnerSegment(fullName) == SubSeq(fullName, 1, FirstSlash(fullName) - 1)

\* the decoder's error dropped, as fetchRepositories drops json.Unmarshal's
FetchUsernameDecodeUnchecked(resp) ==
    IF ~resp.delivered \/ resp.status # StatusOK
    THEN [username |-> Empty, failed |-> TRUE]
    ELSE [username |-> resp.login, failed |-> FALSE]

\* fetchUsername: the login and whether an error is returned
FetchUsername(resp) ==
    IF ~resp.delivered \/ resp.status # StatusOK \/ ~resp.json
    THEN [username |-> Empty, failed |-> TRUE]
    ELSE [username |-> resp.login, failed |-> FALSE]

\* the two tests in the other order: --user looked at first
ResolveUsernameUserFirst(om, u, login) ==
    IF u # Empty THEN u ELSE IF om THEN login ELSE Empty

\* main, lines 60-69: the username handed to fetchRepositories
ResolveUsername(om, u, login) ==
    IF om THEN login ELSE IF u # Empty THEN u ELSE Empty

\* main, line 71: the filterByUsername argument
FilterArgument(om, u) == om \/ u # Empty

\* json.Unmarshal(body, &repos), its error dropped: nothing is decoded from
\* a body that is no JSON array
Decode(resp) == IF resp.json THEN resp.entries ELSE Empty

\* the status never looked at
RequestFailsUnchecked(resp) == ~resp.delivered

\* the request failed: client.Do's error, or a status other than 200
RequestFails(resp) == ~resp.delivered \/ resp.status # StatusOK

\* the test without `username != ""`
FilterAppliesUnguarded(filterByUsername, name) == filterByUsername

\* if filterByUsername && username != ""
FilterApplies(filterByUsername, name) == filterByUsername /\ name # Empty

\* strings.Split(repo.FullName, "/")[0] == username
KeepsRepo(repo, name) == OwnerSegment(repo.FullName) = name

\* the loop left when the filter keeps nothing of a page
EndsListingOnKept(decoded) ==
    Len(IF FilterApplies(FilterArgument(onlyMe, user), username)
        THEN SelectSeq(decoded, LAMBDA r : KeepsRepo(r, username))
        ELSE decoded) = 0

\* if len(repos) == 0 { break }
EndsListing(decoded) == Len(decoded) = 0

\* what one page adds to allRepos
PageKept(decoded, name, filterByUsername) ==
    IF FilterApplies(filterByUsername, name)
    THEN SelectSeq(decoded, LAMBDA r : KeepsRepo(r, name))
    ELSE decoded

\* the increment forgotten
NextPageStuck(p) == p

\* page++
NextPage(p) == p + 1

RECURSIVE FetchFrom(_, _, _, _, _)
\* fetchRepositories as a function of the server's pages, from page p on
\* with acc accumulated: the list returned and whether an error is returned.
\* A page the server has none of has no entries.
FetchFrom(pages, p, acc, name, filterByUsername) ==
    IF p > Len(pages) THEN [repos |-> acc, failed |-> FALSE]
    ELSE IF RequestFails(pages[p]) THEN [repos |-> Empty, failed |-> TRUE]
    ELSE IF EndsListing(Decode(pages[p])) THEN [repos |-> acc, failed |-> FALSE]
    ELSE FetchFrom(pages, NextPage(p),
                   acc \o PageKept(Decode(pages[p]), name, filterByUsername),
                   name, filterByUsername)

\* fetchRepositories(giteaHost, giteaAccessToken, username, filterByUsername)
FetchRepositories(pages, name, filterByUsername) ==
    FetchFrom(pages, 1, Empty, name, filterByUsername)

RECURSIVE EntriesServed(_)
\* how many entries the responses in s hold
EntriesServed(s) ==
    IF s = Empty THEN 0 ELSE Len(s[Len(s)].entries) + EntriesServed(SubSeq(s, 1, Len(s) - 1))

\* ---------------------------------------------------------------- Init
\* main is about to load config.env; the flags are parsed
InitMain ==
    /\ config = EmptyMap
    /\ configErr = FALSE
    /\ onlyMe \in BOOLEAN
    /\ user \in Usernames
    /\ fs \in [FullNames -> {Absent, Present, StatFails}]
    /\ fs0 = fs
    /\ pcMain = "load"
    /\ username = Empty
    /\ identityCalls = 0
    /\ lookedUp = Empty
    /\ page = 1
    /\ allRepos = Empty
    /\ served = Empty
    /\ requested = Empty
    /\ listErr = FALSE
    /\ repos = Empty
    /\ next = 1
    /\ wg = 0
    /\ resultsCh = Empty
    /\ closed = FALSE
    /\ closes = 0
    /\ pcCloser = "none"
    /\ pc = [t \in Tasks |-> "none"]
    /\ statSaw = [t \in Tasks |-> "none"]
    /\ err = [t \in Tasks |-> Nil]
    /\ ctxLeft = [t \in Tasks |-> 0]
    /\ age = [t \in Tasks |-> 0]
    /\ cloneCalls = [t \in Tasks |-> 0]
    /\ sent = [t \in Tasks |-> Empty]
    /\ received = 0
    /\ errLog = Empty

Init ==
    /\ configFile \in ConfigSamples
    /\ InitMain

\* any config.env, and nothing in the target directory yet
InitConfig ==
    /\ configFile \in ConfigFiles
    /\ InitMain
    /\ \A fn \in FullNames : fs[fn] = Absent

\* ------------------------------------------------------- main: listing
\* main, lines 43-58: load config.env and return if that fails; otherwise
\* read the three settings and change to the target directory
MainLoadConfig ==
    /\ pcMain = "load"
    /\ config' = LoadConfig(configFile).config
    /\ configErr' = LoadConfig(configFile).failed
    /\ pcMain' = IF LoadConfig(configFile).failed THEN "done" ELSE "resolve"
    /\ UNCHANGED << configFile, onlyMe, user, fs0, fs, listVars, next, wg, chanVars,
                    pcCloser, taskVars, received, errLog >>

\* main, lines 60-69: with --onlyme ask the server who the token is, and
\* return when that fails; otherwise take --user's value.
MainResolve ==
    /\ pcMain = "resolve"
    /\ IF onlyMe
       THEN \E resp \in IdentityResponses :
              /\ identityCalls' = identityCalls + 1
              /\ lookedUp' = Append(lookedUp, resp)
              /\ username' = ResolveUsername(onlyMe, user, FetchUsername(resp).username)
              /\ pcMain' = IF FetchUsername(resp).failed THEN "done" ELSE "list"
       ELSE /\ username' = ResolveUsername(onlyMe, user, Empty)
            /\ pcMain' = "list"
            /\ UNCHANGED << identityCalls, lookedUp >>
    /\ UNCHANGED << flagVars, fs, page, allRepos, served, requested, listErr, repos,
                    next, wg, chanVars, pcCloser, taskVars, received, errLog >>

\* fetchRepositories, one turn of its loop (lines 117-157): request the
\* page; on a failure return nil and the error, and main returns (lines
\* 72-75); on a page with no entries return allRepos to main (line 158);
\* otherwise append what the filter keeps and go to the next page. The
\* function's locals are gone once it returns.
FetchPage ==
    /\ pcMain = "list"
    /\ \E resp \in PageResponses(MaxEntries - EntriesServed(served)) :
         LET decoded == Decode(resp)
             filterByUsername == FilterArgument(onlyMe, user)
         IN /\ served' = Append(served, resp)
            /\ requested' = Append(requested, page)
            /\ IF RequestFails(resp)
               THEN /\ listErr' = TRUE
                    /\ repos' = Empty
                    /\ pcMain' = "done"
                    /\ page' = 1
                    /\ allRepos' = Empty
               ELSE IF EndsListing(decoded)
               THEN /\ repos' = allRepos
                    /\ pcMain' = "found"
                    /\ page' = 1
                    /\ allRepos' = Empty
                    /\ UNCHANGED listErr
               ELSE /\ allRepos' = allRepos \o PageKept(decoded, username, filterByUsername)
                    /\ page' = NextPage(page)
                    /\ UNCHANGED << listErr, repos, pcMain >>
    /\ UNCHANGED << flagVars, fs, username, identityCalls, lookedUp, next, wg, chanVars,
                    pcCloser, taskVars, received, errLog >>

\* main, lines 77-80: print how many repositories were found, make the
\* channel and the WaitGroup. The log of the listing requests, which is no
\* state of the program, is dropped here: the listing is over.
MainFound ==
    /\ pcMain = "found"
    /\ pcMain' = "launch"
    /\ served' = Empty
    /\ requested' = Empty
    /\ UNCHANGED << flagVars, fs, username, identityCalls, lookedUp, page, allRepos, listErr, repos,
                    next, wg, chanVars, pcCloser, taskVars, received, errLog >>

\* ---------------------------------------------------- main: dispatching
\* resultsCh := make(chan Result, len(repos))
ChanCap(rs) == Len(rs)

\* one context made before the loop and shared by the tasks
TaskCtxShared(t) == 1

\* the context a task runs its clone under: its own (line 86)
TaskCtx(t) == t

\* context.WithTimeout(context.Background(), timeout)
CtxTimeout == Timeout

\* a context without a deadline: never done
CtxDoneNever(t) == FALSE

\* the task's context is done: its deadline passed, or it was cancelled
CtxDone(t) == ctxLeft[TaskCtx(t)] = 0

\* the test err == nil: only a destination stat could read is skipped
SkipsCloneOnNilError(found) == found = Present

\* the test without its negation: os.IsNotExist(err)
SkipsCloneInverted(found) == found = Absent

\* !os.IsNotExist(err), of what os.Stat(repo.FullName) found
SkipsClone(found) == found # Absent

\* err shared by the goroutines instead of declared in each: the result
\* carries whatever the first task's clone returned
TaskResultSharedErr(t) == [RepoName |-> repos[t].FullName, Err |-> err[1]]

\* Result{RepoName: repo.FullName, Err: err}
TaskResult(t) == [RepoName |-> repos[t].FullName, Err |-> err[t]]

\* the test inverted: a line for every result without an error
ReportsErrorInverted(res) == res.Err = Nil

\* if res.Err != nil
ReportsError(res) == res.Err # Nil

\* what a clone that did not succeed may leave at path: nothing, or a
\* partial directory
AfterFailedClone(path) == { fs, [fs EXCEPT ![path] = Present] }

\* a dispatcher that does not wait for the listing: a task is launched for
\* a descriptor as soon as a page has brought it
MainLaunchWhileListing ==
    /\ pcMain \in {"list", "launch"}
    /\ next <= Len(IF pcMain = "list" THEN allRepos ELSE repos)
    /\ wg' = wg + 1
    /\ pc' = [pc EXCEPT ![next] = "spawned"]
    /\ next' = next + 1
    /\ UNCHANGED << flagVars, fs, pcMain, listVars, chanVars, pcCloser, statSaw, err,
                    ctxLeft, age, cloneCalls, sent, received, errLog >>

\* main, lines 82-99, one turn of the loop: wg.Add(1) and the go statement
MainLaunch ==
    /\ pcMain = "launch"
    /\ next <= Len(repos)
    /\ wg' = wg + 1
    /\ pc' = [pc EXCEPT ![next] = "spawned"]
    /\ next' = next + 1
    /\ UNCHANGED << flagVars, fs, pcMain, listVars, chanVars, pcCloser, statSaw, err,
                    ctxLeft, age, cloneCalls, sent, received, errLog >>

\* main, lines 101-104: the go statement of the goroutine that closes
MainGoCloser ==
    /\ pcMain = "launch"
    /\ next > Len(repos)
    /\ pcCloser' = "wait"
    /\ pcMain' = "range"
    /\ UNCHANGED << flagVars, fs, listVars, next, wg, chanVars, taskVars, received, errLog >>

\* a task, lines 85-95: create the context, stat the destination, and
\* either skip (the result is sent next) or go on to clone
TaskStat(t) ==
    /\ pc[t] = "spawned"
    /\ ctxLeft' = [ctxLeft EXCEPT ![TaskCtx(t)] = CtxTimeout]
    /\ age' = [age EXCEPT ![t] = 0]
    /\ statSaw' = [statSaw EXCEPT ![t] = fs[repos[t].FullName]]
    /\ err' = [err EXCEPT ![t] = Nil]
    /\ pc' = [pc EXCEPT ![t] = IF SkipsClone(fs[repos[t].FullName]) THEN "send" ELSE "clone"]
    /\ UNCHANGED << flagVars, fs, pcMain, listVars, next, wg, chanVars, pcCloser,
                    cloneCalls, sent, received, errLog >>

\* gitClone, cmd.Run's start: a context already done is returned as the
\* error without starting git; otherwise git starts, or fails to
GitCloneStart(t) ==
    /\ pc[t] = "clone"
    /\ cloneCalls' = [cloneCalls EXCEPT ![t] = @ + 1]
    /\ IF CtxDone(t)
       THEN /\ err' = [err EXCEPT ![t] = ErrDeadline]
            /\ pc' = [pc EXCEPT ![t] = "send"]
       ELSE \/ /\ err' = [err EXCEPT ![t] = ErrSpawn]
               /\ pc' = [pc EXCEPT ![t] = "send"]
            \/ /\ pc' = [pc EXCEPT ![t] = "running"]
               /\ UNCHANGED err
    /\ UNCHANGED << flagVars, fs, pcMain, listVars, next, wg, chanVars, pcCloser,
                    statSaw, ctxLeft, age, sent, received, errLog >>

\* git exits by itself before the context is done: with status 0 and the
\* clone at the destination, or with another status
GitCloneExit(t) ==
    /\ pc[t] = "running"
    /\ ~CtxDone(t)
    /\ \/ /\ err' = [err EXCEPT ![t] = Nil]
          /\ fs' = [fs EXCEPT ![repos[t].FullName] = Present]
       \/ /\ err' = [err EXCEPT ![t] = ErrExit]
          /\ fs' \in AfterFailedClone(repos[t].FullName)
    /\ pc' = [pc EXCEPT ![t] = "send"]
    /\ UNCHANGED << flagVars, pcMain, listVars, next, wg, chanVars, pcCloser,
                    statSaw, ctxLeft, age, cloneCalls, sent, received, errLog >>

\* git is still running when the task's context is done: exec kills it and
\* cmd.Run returns an error
GitCloneKilled(t) ==
    /\ pc[t] = "running"
    /\ CtxDone(t)
    /\ err' = [err EXCEPT ![t] = ErrKilled]
    /\ fs' \in AfterFailedClone(repos[t].FullName)
    /\ pc' = [pc EXCEPT ![t] = "send"]
    /\ UNCHANGED << flagVars, pcMain, listVars, next, wg, chanVars, pcCloser,
                    statSaw, ctxLeft, age, cloneCalls, sent, received, errLog >>

\* resultsCh <- Result{...} (lines 91 and 97): blocks while the buffer is full
TaskSend(t) ==
    /\ pc[t] = "send"
    /\ Len(resultsCh) < ChanCap(repos)
    /\ resultsCh' = Append(resultsCh, TaskResult(t))
    /\ sent' = [sent EXCEPT ![t] = Append(@, TaskResult(t))]
    /\ pc' = [pc EXCEPT ![t] = "return"]
    /\ UNCHANGED << flagVars, fs, pcMain, listVars, next, wg, closed, closes, pcCloser,
                    statSaw, err, ctxLeft, age, cloneCalls, received, errLog >>

\* the task's deferred calls: cancel(), then wg.Done()
TaskReturn(t) ==
    /\ pc[t] = "return"
    /\ ctxLeft' = [ctxLeft EXCEPT ![TaskCtx(t)] = 0]
    /\ age' = [age EXCEPT ![t] = 0]
    /\ wg' = wg - 1
    /\ pc' = [pc EXCEPT ![t] = "done"]
    /\ UNCHANGED << flagVars, fs, pcMain, listVars, next, chanVars, pcCloser,
                    statSaw, err, cloneCalls, sent, received, errLog >>

\* the wait left out: the channel is closed whatever the counter is
WaitReturnsAtOnce(counter) == TRUE

\* wg.Wait() returns once the counter is zero
WaitReturns(counter) == counter = 0

\* wg.Wait()
CloserWait ==
    /\ pcCloser = "wait"
    /\ WaitReturns(wg)
    /\ pcCloser' = "close"
    /\ UNCHANGED << flagVars, fs, pcMain, listVars, next, wg, chanVars, taskVars,
                    received, errLog >>

\* close(resultsCh)
CloserClose ==
    /\ pcCloser = "close"
    /\ closed' = TRUE
    /\ closes' = closes + 1
    /\ pcCloser' = "done"
    /\ UNCHANGED << flagVars, fs, pcMain, listVars, next, wg, resultsCh, taskVars,
                    received, errLog >>

\* main, lines 106-110, one turn of the range loop: take a result, and
\* print a line if it carries an error
MainReceive ==
    /\ pcMain = "range"
    /\ resultsCh # Empty
    /\ resultsCh' = Tail(resultsCh)
    /\ received' = received + 1
    /\ errLog' = IF ReportsError(Head(resultsCh)) THEN Append(errLog, Head(resultsCh)) ELSE errLog
    /\ UNCHANGED << flagVars, fs, pcMain, listVars, next, wg, closed, closes, pcCloser,
                    taskVars >>

\* the range loop ends when the channel is closed and drained; main returns
MainRangeEnd ==
    /\ pcMain = "range"
    /\ resultsCh = Empty
    /\ closed
    /\ pcMain' = "done"
    /\ UNCHANGED << flagVars, fs, listVars, next, wg, chanVars, pcCloser, taskVars,
                    received, errLog >>

\* a minute passes: every live context has a minute less, every task that
\* holds one is a minute older
Tick ==
    /\ \E c \in Tasks : ctxLeft[c] > 0
    /\ ctxLeft' = [c \in Tasks |-> IF ctxLeft[c] > 0 THEN ctxLeft[c] - 1 ELSE 0]
    /\ age' = [t \in Tasks |->
                 IF pc[t] \in {"clone", "running", "send", "return"}
                 THEN Min(age[t] + 1, Timeout) ELSE age[t]]
    /\ UNCHANGED << flagVars, fs, pcMain, listVars, next, wg, chanVars, pcCloser,
                    pc, statSaw, err, cloneCalls, sent, received, errLog >>

TaskNext(t) ==
    \/ TaskStat(t)
    \/ GitCloneStart(t)
    \/ GitCloneExit(t)
    \/ GitCloneKilled(t)
    \/ TaskSend(t)
    \/ TaskReturn(t)

\* the listing alone, up to fetchRepositories' return
ListerNext ==
    \/ MainLoadConfig
    \/ MainResolve
    \/ FetchPage

Next ==
    \/ MainLoadConfig
    \/ MainResolve
    \/ FetchPage
    \/ MainFound
    \/ MainLaunch
    \/ MainGoCloser
    \/ \E t \in Tasks : TaskStat(t)
    \/ \E t \in Tasks : GitCloneStart(t)
    \/ \E t \in Tasks : GitCloneExit(t)
    \/ \E t \in Tasks : GitCloneKilled(t)
    \/ \E t \in Tasks : TaskSend(t)
    \/ \E t \in Tasks : TaskReturn(t)
    \/ CloserWait
    \/ CloserClose
    \/ MainReceive
    \/ MainRangeEnd
    \/ Tick

Spec == Init /\ [][Next]_vars

\* the goroutine of main runs on while it can take a step, a request to the
\* server being answered or failing
MainFair ==
    WF_vars(MainLoadConfig \/ MainResolve \/ FetchPage \/ MainFound \/ MainLaunch
            \/ MainGoCloser \/ MainReceive \/ MainRangeEnd)

\* the goroutine of a task runs on while it can take a step; git, once
\* started, need not exit by itself
TaskFair(t) == WF_vars(TaskStat(t) \/ GitCloneStart(t) \/ TaskSend(t) \/ TaskReturn(t))

\* exec kills git once the context it was started under is done
KillFair(t) == WF_vars(GitCloneKilled(t))

\* the goroutine that closes the channel runs on while it can take a step
CloserFair == WF_vars(CloserWait \/ CloserClose)

\* time passes
TickFair == WF_vars(Tick)

\* a run without --onlyme and --user
InitNoFlags == Init /\ ~onlyMe /\ user = Empty

\* the whole program, run without flags, under the scheduling of the Go
\* runtime
SpecFair ==
    /\ InitNoFlags /\ [][Next]_vars
    /\ MainFair
    /\ \A t \in Tasks : TaskFair(t) /\ KillFair(t)
    /\ CloserFair
    /\ TickFair

\* main up to the return of fetchRepositories
SpecLister == Init /\ [][ListerNext]_vars

\* the same, for every config.env
SpecConfig == InitConfig /\ [][ListerNext]_vars

\* ============================================================== claims
\* the descriptors main dispatches: one task each
Dispatched == 1..Len(repos)

\* the task has sent its result
HasSent(t) == pc[t] \in {"return", "done"}

\* C1: a task whose existence check finds its destination present never
\* calls gitClone, and delivers exactly one result, with a nil error, before
\* main returns.
C1_ExistingNeverCloned ==
    \A t \in Tasks :
        statSaw[t] = Present =>
            /\ cloneCalls[t] = 0
            /\ pc[t] \notin {"clone", "running"}
            /\ Len(sent[t]) <= 1
            /\ HasSent(t) => sent[t] = << [RepoName |-> repos[t].FullName, Err |-> Nil] >>
            /\ pcMain = "done" => pc[t] = "done" /\ Len(sent[t]) = 1

\* C1's case: a task found its destination present and has finished, and
\* main has returned
C1_Witness ==
    /\ pcMain = "done"
    /\ \E t \in Dispatched : statSaw[t] = Present /\ pc[t] = "done" /\ Len(sent[t]) = 1

RECURSIVE ConcatEntries(_)
\* the entries of the responses in s, one page after the other
ConcatEntries(s) ==
    IF s = Empty THEN Empty
    ELSE ConcatEntries(SubSeq(s, 1, Len(s) - 1)) \o s[Len(s)].entries

\* every listing request so far was answered with status 200
AllPagesOK == \A i \in 1..Len(served) : served[i].delivered /\ served[i].status = StatusOK

\* C2: with no filter and a server that answers 200 throughout, the pages
\* requested are 1, 2, 3, ... each once; no page is requested after one
\* that had no entries; and what fetchRepositories returns is the
\* concatenation, in order, of the pages before the empty one.
C2_PagesConcatenated ==
    (AllPagesOK /\ ~FilterArgument(onlyMe, user)) =>
        /\ requested = [i \in 1..Len(served) |-> i]
        /\ \A i \in 1..(Len(served) - 1) : Len(served[i].entries) > 0
        /\ pcMain = "list" => /\ allRepos = ConcatEntries(served)
                              /\ \A i \in 1..Len(served) : Len(served[i].entries) > 0
        /\ pcMain = "found" => /\ Len(served) >= 1
                               /\ Len(served[Len(served)].entries) = 0
                               /\ repos = ConcatEntries(SubSeq(served, 1, Len(served) - 1))
                               /\ ~listErr

\* C2's case: two pages with an entry each, then the empty page
C2_Witness ==
    /\ pcMain = "found"
    /\ ~FilterArgument(onlyMe, user)
    /\ AllPagesOK
    /\ Len(served) = 3
    /\ Len(repos) = 2
    /\ repos[1] # repos[2]

\* C3, as claimed: whenever --onlyme or --user is given, every descriptor
\* fetchRepositories returns has the filter username as its owner segment.
C3_FilteredByOwner ==
    (pcMain = "found" /\ (onlyMe \/ user # Empty)) =>
        \A i \in 1..Len(repos) : OwnerSegment(repos[i].FullName) = username

\* C5: once a listing request is answered with a status other than 200,
\* fetchRepositories has returned an error and no repositories, that
\* request is the last one made, main has returned, and no task was
\* launched nor any clone called.
C5_Non200Aborts ==
    \A i \in 1..Len(served) :
        (served[i].delivered /\ served[i].status # StatusOK) =>
            /\ i = Len(served)
            /\ listErr
            /\ repos = Empty
            /\ pcMain = "done"
            /\ next = 1
            /\ wg = 0
            /\ pcCloser = "none"
            /\ \A t \in Tasks : pc[t] = "none" /\ cloneCalls[t] = 0 /\ sent[t] = Empty

\* C5's case: a page with entries was accumulated, and the next request
\* was answered with another status
C5_Witness ==
    /\ Len(served) = 2
    /\ Len(served[1].entries) > 0
    /\ served[2].delivered
    /\ served[2].status # StatusOK
    /\ pcMain = "done"

\* C6, as claimed: a page answered 200 with a body that is no JSON array
\* of repositories makes fetchRepositories return an error and nothing else.
C6_MalformedAborts ==
    \A i \in 1..Len(served) :
        (served[i].delivered /\ served[i].status = StatusOK /\ ~served[i].json) =>
            /\ listErr
            /\ repos = Empty
            /\ pcMain = "done"

\* C10: a run with --onlyme whose identity lookup gave U ends its listing
\* with what fetchRepositories returns for --user U on the same pages: the
\* same list in the same order, or an error in both.
C10_OnlyMeAsUser ==
    (onlyMe /\ pcMain \in {"found", "done"} /\ Len(served) >= 1) =>
        LET asUser == FetchRepositories(served, ResolveUsername(FALSE, username, Empty),
                                        FilterArgument(FALSE, username))
        IN /\ repos = asUser.repos
           /\ listErr = asUser.failed

\* C10's case: --onlyme resolved to "a", and of the two entries served the
\* one owned by "a" was kept
C10_Witness ==
    /\ onlyMe
    /\ pcMain = "found"
    /\ username = NameA
    /\ EntriesServed(served) = 2
    /\ Len(repos) = 1

\* the dispatch is over: every task launched, the channel closed and
\* drained, main returned
DispatchOver == pcMain = "done" /\ pcCloser = "done"

\* K: the descriptors whose destination was present when the run began
ExistedLocally == { t \in Dispatched : fs0[repos[t].FullName] = Present }

\* the tasks that delivered a no-op result: they skipped the clone
NoOps == { t \in Dispatched : HasSent(t) /\ cloneCalls[t] = 0 }

RECURSIVE SumOver(_, _)
\* the sum of f over the set S
SumOver(f, S) ==
    IF S = {} THEN 0
    ELSE LET x == CHOOSE y \in S : TRUE IN f[x] + SumOver(f, S \ {x})

\* C4, as claimed: when the dispatch of N descriptors, K of them present
\* on disk at the start and the others absent, is over, there were exactly
\* K no-op results, exactly N - K calls of gitClone, and N results in all.
C4_CountsMatch ==
    (DispatchOver /\ \A t \in Dispatched : fs0[repos[t].FullName] \in {Present, Absent}) =>
        /\ Cardinality(NoOps) = Cardinality(ExistedLocally)
        /\ SumOver(cloneCalls, Dispatched) = Len(repos) - Cardinality(ExistedLocally)
        /\ SumOver([t \in Tasks |-> Len(sent[t])], Dispatched) = Len(repos)
        /\ received = Len(repos)

\* C7: whatever the other tasks' clones did, a task that is under way has
\* made its own existence check, has called gitClone once if it found its
\* destination absent, has a step it can take, and delivers one result,
\* which carries the error of its own clone.
C7_TasksIsolated ==
    \A t \in Dispatched :
        /\ pc[t] \notin {"none", "spawned"} =>
              /\ statSaw[t] # "none"
              /\ statSaw[t] = Absent => cloneCalls[t] = (IF pc[t] = "clone" THEN 0 ELSE 1)
              /\ statSaw[t] # Absent => cloneCalls[t] = 0 /\ err[t] = Nil
        /\ pc[t] \notin {"none", "done"} => ENABLED TaskNext(t)
        /\ Len(sent[t]) = (IF HasSent(t) THEN 1 ELSE 0)
        /\ HasSent(t) => sent[t][1] = [RepoName |-> repos[t].FullName, Err |-> err[t]]

\* C7's case: one task's clone failed, and another task, whose destination
\* was absent, cloned and delivered a nil error
C7_Witness ==
    \E t1, t2 \in Dispatched :
        /\ t1 # t2
        /\ pc[t1] = "done" /\ sent[t1][1].Err # Nil
        /\ pc[t2] = "done" /\ statSaw[t2] = Absent /\ cloneCalls[t2] = 1
        /\ sent[t2][1].Err = Nil

\* C8: a task's context is done exactly when the task's own five minutes
\* are over, whatever the other tasks' contexts did; a clone still running
\* then can only be killed, an earlier one only exit by itself; a killed
\* clone's task is at least five minutes old and delivers a non-nil error.
C8_OwnTimeout ==
    \A t \in Dispatched :
        /\ pc[t] \in {"clone", "running"} => (CtxDone(t) <=> age[t] >= Timeout)
        /\ pc[t] = "running" =>
              /\ (age[t] >= Timeout) <=> ENABLED GitCloneKilled(t)
              /\ (age[t] < Timeout) <=> ENABLED GitCloneExit(t)
        /\ (pc[t] = "send" /\ err[t] \in {ErrKilled, ErrDeadline}) => age[t] >= Timeout
        /\ (HasSent(t) /\ err[t] = ErrKilled) => sent[t][1].Err # Nil

\* C8's case: one task's clone was killed at its deadline while another
\* task's clone, started later, is still running under a live context
C8_Witness ==
    \E t1, t2 \in Dispatched :
        /\ HasSent(t1) /\ sent[t1][1].Err = ErrKilled
        /\ pc[t2] = "running" /\ ~CtxDone(t2) /\ age[t2] > 0

FailedSent == { t \in Dispatched : HasSent(t) /\ sent[t][1].Err # Nil }

C11_OneFilterMode ==
    /\ identityCalls = (IF onlyMe /\ ~configErr /\ pcMain \notin {"load", "resolve"} THEN 1 ELSE 0)
    /\ pcMain \in {"list", "found"} =>
          LET expected == IF onlyMe THEN lookedUp[1].login ELSE user
              listed == IF pcMain = "list" THEN allRepos ELSE repos
          IN /\ username = expected
             /\ (~onlyMe /\ user = Empty) => listed = FetchRepositories(served, Empty, FALSE).repos
             /\ (onlyMe \/ user # Empty) =>
                   listed = FetchRepositories(served, expected, TRUE).repos

\* C11's case: both flags given, the lookup returned "a" and --user was
\* "ab"; of the two entries served the one owned by "a" was kept
C11_Witness ==
    /\ onlyMe
    /\ user = NameAB
    /\ pcMain = "found"
    /\ lookedUp[1].login = NameA
    /\ EntriesServed(served) = 2
    /\ Len(repos) = 1
    /\ OwnerSegment(repos[1].FullName) = NameA

\* C12: the results received and those still in the channel are together
\* the results the tasks sent; the channel is closed at most once, and only
\* when every task has sent its result and finished, so that no send comes
\* after the close; when main returns every result has been received.
C12_NoLossOneClose ==
    /\ received + Len(resultsCh) = SumOver([t \in Tasks |-> Len(sent[t])], Tasks)
    /\ \A i \in 1..Len(resultsCh) : \E t \in Dispatched : HasSent(t) /\ sent[t][1] = resultsCh[i]
    /\ closes = (IF closed THEN 1 ELSE 0)
    /\ pcCloser = "done" <=> closed
    /\ closed => /\ next > Len(repos)
                 /\ \A t \in Dispatched : pc[t] = "done" /\ Len(sent[t]) = 1
    /\ DispatchOver => closed /\ resultsCh = Empty /\ received = Len(repos)

\* C12's case: two tasks sent their results, the channel was closed and
\* main received both and returned
C12_Witness ==
    /\ DispatchOver
    /\ Len(repos) = 2
    /\ received = 2
    /\ closes = 1

\* the identity lookup failed: no response, a status other than 200, or a
\* body that does not decode
LookupFailed(resp) == ~resp.delivered \/ resp.status # StatusOK \/ ~resp.json

\* C13: once the identity lookup of --onlyme has failed, main has returned
\* and no listing page was requested, no task launched, no clone called.
C13_LookupFailureAborts ==
    \A i \in 1..Len(lookedUp) :
        LookupFailed(lookedUp[i]) =>
            /\ pcMain = "done"
            /\ served = Empty
            /\ requested = Empty
            /\ repos = Empty
            /\ next = 1
            /\ wg = 0
            /\ pcCloser = "none"
            /\ \A t \in Tasks : pc[t] = "none" /\ cloneCalls[t] = 0 /\ sent[t] = Empty

\* C13's case: --onlyme, and the lookup was answered 200 with a body that
\* does not decode
C13_Witness ==
    /\ onlyMe
    /\ Len(lookedUp) = 1
    /\ lookedUp[1].delivered
    /\ lookedUp[1].status = StatusOK
    /\ ~lookedUp[1].json
    /\ pcMain = "done"

\* ---------------------------------------------------------------- C14
\* where the lines of a file begin and end: before its first character, at
\* each end-of-line character, after its last character
LineBreaks(file) == {0, Len(file) + 1} \cup { i \in 1..Len(file) : file[i] = "\n" }

\* the lines of a file, each with the place of the break before it
LinesOf(file) ==
    { << a, SubSeq(file, a + 1, b - 1) >> :
        << a, b >> \in { ab \in LineBreaks(file) \X LineBreaks(file) :
                            /\ ab[1] < ab[2]
                            /\ \A c \in LineBreaks(file) : ~(ab[1] < c /\ c < ab[2]) } }

Separators(line) == Cardinality({ i \in 1..Len(line) : line[i] = "=" })

\* the lines that are neither blank nor comments
Considered(file) ==
    { l \in LinesOf(file) : /\ \E i \in 1..Len(l[2]) : l[2][i] # " "
                            /\ l[2][1] # "#" }

KeyOf(line) == TrimSpace(SubSeq(line, 1, IndexOf(line, "=") - 1))

ValueOf(line) == TrimSpace(SubSeq(line, IndexOf(line, "=") + 1, Len(line)))

\* nothing was asked of the server and no task exists
NothingListedOrCloned ==
    /\ pcMain = "done"
    /\ identityCalls = 0 /\ lookedUp = Empty
    /\ served = Empty /\ requested = Empty /\ allRepos = Empty /\ repos = Empty
    /\ next = 1 /\ wg = 0 /\ pcCloser = "none"
    /\ \A t \in Tasks : pc[t] = "none" /\ cloneCalls[t] = 0 /\ sent[t] = Empty

\* C14 as stated: once config.env is loaded, the load has failed exactly when
\* some line that is neither blank nor a comment does not hold exactly one
\* '=', and after a failed load nothing is listed or cloned.
C14_ExactlyOneSeparator ==
    pcMain # "load" =>
        /\ configErr <=> \E l \in Considered(configFile) : Separators(l[2]) # 1
        /\ configErr => NothingListedOrCloned

\* C14: once config.env is loaded, the load has failed exactly when some
\* line that is neither blank nor a comment holds no '='; a line with more
\* than one '=' is cut at the first, the key before it and the value after
\* it, the last line of a key giving its value; after a failed load nothing
\* is listed or cloned.
C14_AtLeastOneSeparator ==
    pcMain # "load" =>
        /\ configErr <=> \E l \in Considered(configFile) : Separators(l[2]) = 0
        /\ configErr => NothingListedOrCloned /\ config = EmptyMap
        /\ ~configErr =>
              /\ DOMAIN config = { KeyOf(l[2]) : l \in Considered(configFile) }
              /\ \A l \in Considered(configFile) :
                    \/ config[KeyOf(l[2])] = ValueOf(l[2])
                    \/ \E m \in Considered(configFile) : m[1] > l[1] /\ KeyOf(m[2]) = KeyOf(l[2])

\* config.env is "k==" and the listing went on to its end with k set to "="
C14_Witness ==
    /\ configFile = << "k", "=", "=" >>
    /\ pcMain = "found"
    /\ ~configErr
    /\ config[<< "k" >>] = << "=" >>

\* ---------------------------------------------------------------- C15
\* main has not yet got the list from fetchRepositories
ListerRunning == pcMain \in {"load", "resolve", "list", "found"}

\* no task has been launched, nothing was checked, cloned or sent
NoTaskYet ==
    /\ next = 1 /\ wg = 0 /\ pcCloser = "none"
    /\ \A t \in Tasks : /\ pc[t] = "none" /\ statSaw[t] = "none" /\ cloneCalls[t] = 0
                        /\ sent[t] = Empty

\* C15: the lister runs to completion before the dispatcher starts: while
\* main has not got the list no task exists and nothing has been checked or
\* cloned, and from the launch of the first task on no request is made to
\* the server and the list does not change.
C15_ListerBeforeDispatcher ==
    /\ [](ListerRunning => NoTaskYet)
    /\ [][~NoTaskYet => UNCHANGED << identityCalls, lookedUp, served, requested, page,
                                     allRepos, repos, username >>]_vars

\* both tasks of a list of two have cloned, after the listing
C15_Witness ==
    /\ pcMain = "range" /\ Len(repos) = 2
    /\ \A t \in Dispatched : cloneCalls[t] = 1

\* ---------------------------------------------------------------- C16
\* what main has of the listing: allRepos while fetchRepositories runs, its
\* return value afterwards
Listed == IF pcMain = "list" THEN allRepos ELSE repos

\* C16: with a filter active the pagination ends on the entries the server
\* returned and not on the entries kept: pages are asked in order, every
\* page before the last asked had entries, kept or not, the listing is over
\* exactly when the last page had none, and every entry of the filter's owner
\* on any page is in the list, which holds nothing else.
C16_EndsOnServedEntries ==
    (pcMain \in {"list", "found"} /\ FilterApplies(FilterArgument(onlyMe, user), username)) =>
        /\ Len(requested) = Len(served)
        /\ \A i \in 1..Len(served) :
              /\ requested[i] = i
              /\ Decode(served[i]) = Empty <=> (pcMain = "found" /\ i = Len(served))
              /\ \A j \in 1..Len(Decode(served[i])) :
                    OwnerSegment(Decode(served[i])[j].FullName) = username
                        => \E k \in 1..Len(Listed) : Listed[k] = Decode(served[i])[j]
        /\ \A k \in 1..Len(Listed) :
              /\ OwnerSegment(Listed[k].FullName) = username
              /\ \E i \in 1..Len(served) : \E j \in 1..Len(Decode(served[i])) :
                    Listed[k] = Decode(served[i])[j]

\* page 1 held one repository of another owner, page 2 one of the filter's
\* owner, page 3 nothing: the list is the repository of page 2
C16_Witness ==
    /\ pcMain = "found" /\ username = NameA
    /\ FilterApplies(FilterArgument(onlyMe, user), username)
    /\ Len(served) = 3
    /\ Len(Decode(served[1])) = 1 /\ OwnerSegment(Decode(served[1])[1].FullName) = NameAB
    /\ Len(Decode(served[2])) = 1 /\ OwnerSegment(Decode(served[2])[1].FullName) = NameA
    /\ repos = Decode(served[2])

\* ---------------------------------------------------------------- C17
\* main has returned, no goroutine is left running; if tasks were launched
\* each has delivered one outcome, all outcomes were received and the channel
\* is closed
RunOver ==
    /\ pcMain = "done"
    /\ pcCloser \in {"none", "done"}
    /\ \A t \in Tasks : pc[t] \in {"none", "done"}
    /\ \A t \in Tasks : pc[t] = "done" => Len(sent[t]) = 1
    /\ pcCloser = "done" => /\ closed /\ resultsCh = Empty
                            /\ received = Len(repos)
                            /\ \A t \in Dispatched : pc[t] = "done"

\* C17: under fair scheduling the run terminates: from some moment on main
\* has returned and no task is left unfinished, each launched task having
\* delivered its outcome, the channel being closed and drained.
C17_RunTerminates == <>[]RunOver

\* main has returned after a run in which a clone was killed at its timeout
C17_Witness ==
    /\ pcMain = "done" /\ closed /\ Len(repos) = 2 /\ received = 2
    /\ \E t \in Dispatched : err[t] = ErrKilled /\ sent[t] = << TaskResult(t) >>

\* ---------------------------------------------------------------- C18
\* C18 as stated: what a task's existence check finds is what the
\* filesystem held when the dispatch began, whatever the other tasks have
\* done, so a task clones exactly when its destination was absent then, and
\* no destination is the target of the clones of two tasks.
C18_DecisionsIndependent ==
    /\ \A t \in Dispatched :
          statSaw[t] # "none" => statSaw[t] = fs0[repos[t].FullName]
    /\ \A t \in Dispatched :
          cloneCalls[t] > 0 => fs0[repos[t].FullName] = Absent
    /\ \A t1, t2 \in Dispatched :
          (t1 # t2 /\ repos[t1].FullName = repos[t2].FullName)
              => ~(cloneCalls[t1] > 0 /\ cloneCalls[t2] > 0)

\* ---------------------------------------------------------------- C19
\* C19: a task whose os.Stat failed with an error other than "does not
\* exist" goes on as for an existing directory: it never calls gitClone, and
\* the one result it delivers has a nil error and is not reported.
C19_StatErrorSkips ==
    \A t \in Tasks :
        statSaw[t] = StatFails =>
            /\ cloneCalls[t] = 0
            /\ pc[t] \in {"send", "return", "done"}
            /\ err[t] = Nil
            /\ HasSent(t) => sent[t] = << [RepoName |-> repos[t].FullName, Err |-> Nil] >>
            /\ \A i \in 1..Len(errLog) : errLog[i].RepoName = repos[t].FullName
                  => \E u \in Dispatched : u # t /\ sent[u] = << errLog[i] >>

\* a task whose stat failed has delivered its result and finished, main has
\* returned, and the destination is as it was
C19_Witness ==
    /\ pcMain = "done" /\ Len(repos) > 0
    /\ \E t \in Dispatched : /\ statSaw[t] = StatFails /\ pc[t] = "done"
                             /\ sent[t] = << [RepoName |-> repos[t].FullName, Err |-> Nil] >>
                             /\ fs[repos[t].FullName] = StatFails
====
